---- MODULE Spec2Model ----
(***************************************************************************)
(* Model of the QUIC throughput client (src/main.go): the upload phase     *)
(* (main opens the streams, one writer goroutine per opened stream), the   *)
(* upload barrier, the download phase (one goroutine per expected stream,  *)
(* duplex accept, receive-only fallback, read loop, shared total / times   *)
(* under the mutex mu), the download barrier and the report.               *)
(*                                                                         *)
(* The session and its streams are the environment: every call into them   *)
(* (OpenStreamSync, Write, AcceptStream, AcceptUniStream, Read) returns    *)
(* one of the outcomes its interface allows, chosen with \E.               *)
(***************************************************************************)
EXTENDS Integers, Sequences, FiniteSets, TLC

\* ---------------------------------------------------------------- bounds
MaxStreams == 2
ExtraData == 1
MaxTimeouts == 2
MaxDur == 2
MaxLen == 16

\* ------------------------------------------------------ program constants
ChunkSize == 64 * 1024
BufSize == 64 * 1024
\* const ratio = 1048576
ratio == 1048576
\* time.Second, in nanoseconds, the unit of a time.Duration
Second == 1000000000
\* The durations time.Since returns are enumerated in steps of 60 ms, so that
\* the average of up to five of them is a whole number of nanoseconds.
Tick == 60000000

Streams == 1..MaxStreams
DataSizes == {0, ChunkSize + ExtraData}
Durations == {k * Tick : k \in 1..MaxDur}
ReadErrs == {"nil", "EOF", "timeout", "other"}

Min(a, b) == IF a < b THEN a ELSE b

VARIABLES
    numberStream,   \* flag -n
    dataSize,       \* flag -d, len(msg)
    downloadUni,    \* flag -uni
    pcMain,         \* position of main
    i,              \* loop index of main (both for loops)
    w,              \* the WaitGroup counter
    mu,             \* 0: unlocked, t: held by download task t
    total,          \* total (declared at line 147)
    times,          \* times (declared at line 148)
    up,             \* upload goroutines, by index + 1
    dl,             \* download goroutines, by index + 1
    faults,         \* history: some call returned a fault, or a stream was not an echo
    report,         \* what the report step computed
    gen             \* a call of generatePRData: l, i, seed, res

vars == <<numberStream, dataSize, downloadUni, pcMain, i, w, mu, total, times,
          up, dl, faults, report, gen>>

\* What no step of main or of its goroutines changes: the flags, and the call
\* of generatePRData, which has returned before the upload phase.
flags == <<numberStream, dataSize, downloadUni, gen>>

\* No upload goroutine for this index: not spawned yet, never spawned, or returned.
\* lo is the start of the slice the last Write was given, chunk its length and
\* n the count that Write returned.
UpNone == [pc |-> "none", off |-> 0, remaining |-> 0, armed |-> FALSE,
           werr |-> FALSE, closed |-> 0, lo |-> 0, chunk |-> 0, n |-> 0]

\* A download goroutine that does not exist yet.
DlNone == [pc |-> "none", stream |-> "none", hasDL |-> FALSE, rem |-> 0,
           n |-> 0, rerr |-> "nil", reg |-> 0, got |-> 0, tos |-> 0,
           durs |-> 0, armed |-> FALSE, closed |-> 0,
           bidiTries |-> 0, uniTries |-> 0]

\* A float64 of the report, as the exact value n / d it stands for, or +Inf.
Zero == [inf |-> FALSE, n |-> 0, d |-> 1]
Inf == [inf |-> TRUE, n |-> 0, d |-> 1]

NoReport == [outcome |-> "none", averaged |-> FALSE, divisor |-> 0, avgDur |-> 0,
             divided |-> FALSE, bits |-> 0, bps |-> Zero, mbps |-> Zero]

\* No call of generatePRData is being followed.
GenIdle == [pc |-> "idle", l |-> 0, i |-> 0, seed |-> 0, res |-> <<>>]

Init ==
    /\ numberStream \in 0..MaxStreams
    /\ dataSize \in DataSizes
    /\ downloadUni \in BOOLEAN
    /\ pcMain = "open"
    /\ i = 0
    /\ w = 0
    /\ mu = 0
    /\ total = 0
    /\ times = <<>>
    /\ up = [k \in Streams |-> UpNone]
    /\ dl = [t \in Streams |-> DlNone]
    /\ faults = FALSE
    /\ report = NoReport
    /\ gen = GenIdle


\* ------------------------------------------------------- payload generator

Multiplier == 48271
Modulus == 2147483647

\* seed * 48271 in uint64. The product is kept as hi * 2^24 + lo with
\* lo < 2^24, computed from the 12-bit limbs of seed, because no intermediate
\* value may exceed 2^31 - 1 here; it is exact for every seed < 2^31.
Product(seed) ==
    LET s0 == seed % 2^12
        s1 == (seed \div 2^12) % 2^12
        s2 == seed \div 2^24
        p0 == s0 * Multiplier
        p1 == s1 * Multiplier
        p2 == s2 * Multiplier
        low == p0 + (p1 % 2^12) * 2^12
    IN  [hi |-> p2 + (p1 \div 2^12) + (low \div 2^24), lo |-> low % 2^24]

\* p % 2147483647 for p = hi * 2^24 + lo: with p = H * 2^31 + L the remainder
\* is that of H + L, because 2^31 = 2147483647 + 1.
Remainder(p) ==
    LET H == p.hi \div 2^7
        L == (p.hi % 2^7) * 2^24 + p.lo
    IN  IF L >= Modulus - H THEN L - (Modulus - H) ELSE L + H

\* Mutant: the multiplier of the older minimal standard generator.
NextSeed16807(seed) == (seed * 16807) % Modulus

\* seed = seed * 48271 % 2147483647
NextSeed(seed) == Remainder(Product(seed))

\* byte(seed)
Byte(seed) == seed % 256

\* A call generatePRData(l): res := make([]byte, l); seed := uint64(1); i := 0.
GenInit ==
    /\ \E l \in 0..MaxLen :
          /\ gen = [pc |-> "loop", l |-> l, i |-> 0, seed |-> 1,
                    res |-> [k \in 1..l |-> 0]]
          /\ dataSize = l
    /\ numberStream = 0
    /\ downloadUni = FALSE
    /\ pcMain = "open"
    /\ i = 0
    /\ w = 0
    /\ mu = 0
    /\ total = 0
    /\ times = <<>>
    /\ up = [k \in Streams |-> UpNone]
    /\ dl = [t \in Streams |-> DlNone]
    /\ faults = FALSE
    /\ report = NoReport

\* One iteration: seed = seed * 48271 % 2147483647; res[i] = byte(seed); i++.
GenStep ==
    /\ gen.pc = "loop"
    /\ gen.i < gen.l
    /\ LET s == NextSeed(gen.seed)
       IN  gen' = [gen EXCEPT !.seed = s,
                              !.res = [@ EXCEPT ![gen.i + 1] = Byte(s)],
                              !.i = @ + 1]
    /\ UNCHANGED <<numberStream, dataSize, downloadUni, pcMain, i, w, mu, total,
                   times, up, dl, faults, report>>

\* The loop test fails: return res.
GenReturn ==
    /\ gen.pc = "loop"
    /\ gen.i >= gen.l
    /\ gen' = [gen EXCEPT !.pc = "done"]
    /\ UNCHANGED <<numberStream, dataSize, downloadUni, pcMain, i, w, mu, total,
                   times, up, dl, faults, report>>

GenNext == GenStep \/ GenReturn

\* The calls of generatePRData, one size each.
GenSpec == GenInit /\ [][GenNext]_vars

\* ----------------------------------------------------------- upload phase

\* chunk := 64 * 1024; if remaining < chunk { chunk = remaining }
Chunk(remaining) == IF remaining < ChunkSize THEN remaining ELSE ChunkSize

\* The byte counts a Write of chunk bytes may return with a nil error: all of
\* them, or one byte short.
WriteCounts(chunk) == {chunk} \cup (IF chunk > 1 THEN {chunk - 1} ELSE {})

\* Mutant: the upload phase does not wait for its goroutines.
UploadBarrierMissing(cnt) == TRUE

\* w.Wait() of the upload phase returns when the counter is zero.
UploadBarrier(cnt) == cnt = 0

\* Mutant: the open is made by the goroutine of the index, main does not wait
\* for it.
MainOpenInTask ==
    /\ pcMain = "open"
    /\ i < numberStream
    /\ w' = w + 1
    /\ up' = [up EXCEPT ![i + 1] = [UpNone EXCEPT !.pc = "arm"]]
    /\ i' = i + 1
    /\ UNCHANGED <<flags, pcMain, mu, total, times, dl, faults, report>>

\* main calls sess.OpenStreamSync and blocks in it.
MainOpen ==
    /\ pcMain = "open"
    /\ i < numberStream
    /\ pcMain' = "opening"
    /\ UNCHANGED <<flags, i, w, mu, total, times, up, dl, faults, report>>

\* OpenStreamSync returns an error.
MainOpenErr ==
    /\ pcMain = "opening"
    /\ pcMain' = "openErr"
    /\ faults' = TRUE
    /\ UNCHANGED <<flags, i, w, mu, total, times, up, dl, report>>

\* Mutant: a failed open ends the run, as a failed dial does.
MainOpenAbort ==
    /\ pcMain = "openErr"
    /\ pcMain' = "end"
    /\ UNCHANGED <<flags, i, w, mu, total, times, up, dl, faults, report>>

\* if err != nil { Println; continue }: on to the next index, no goroutine for this one.
MainOpenSkip ==
    /\ pcMain = "openErr"
    /\ pcMain' = "open"
    /\ i' = i + 1
    /\ UNCHANGED <<flags, w, mu, total, times, up, dl, faults, report>>

\* OpenStreamSync returns a stream: w.Add(1) and go func(stream).
MainOpenSpawn ==
    /\ pcMain = "opening"
    /\ pcMain' = "open"
    /\ w' = w + 1
    /\ up' = [up EXCEPT ![i + 1] = [UpNone EXCEPT !.pc = "arm"]]
    /\ i' = i + 1
    /\ UNCHANGED <<flags, mu, total, times, dl, faults, report>>

\* First SetWriteDeadline, remaining := len(msg), off := 0, first loop test.
UpArm(k) ==
    /\ up[k].pc = "arm"
    /\ up' = [up EXCEPT ![k] = [@ EXCEPT !.armed = TRUE,
                                         !.remaining = dataSize,
                                         !.off = 0,
                                         !.pc = IF dataSize > 0 THEN "write" ELSE "close"]]
    /\ UNCHANGED <<flags, pcMain, i, w, mu, total, times, dl, faults, report>>

\* Mutant: the count returned by Write is ignored, the whole chunk is taken
\* as written.
UpWriteOkWholeChunk(k) ==
    /\ up[k].pc = "write"
    /\ \E n \in WriteCounts(Chunk(up[k].remaining)) :
          up' = [up EXCEPT ![k] = [@ EXCEPT !.lo = up[k].off,
                                             !.chunk = Chunk(up[k].remaining),
                                             !.n = n,
                                             !.off = @ + Chunk(up[k].remaining),
                                             !.remaining = @ - Chunk(up[k].remaining),
                                             !.armed = FALSE,
                                             !.pc = "rearm"]]
    /\ UNCHANGED <<flags, pcMain, i, w, mu, total, times, dl, faults, report>>

\* stream.Write(msg[off : off+chunk]) returns (n, nil): off += n; remaining -= n.
UpWriteOk(k) ==
    /\ up[k].pc = "write"
    /\ \E n \in WriteCounts(Chunk(up[k].remaining)) :
          up' = [up EXCEPT ![k] = [@ EXCEPT !.lo = up[k].off,
                                             !.chunk = Chunk(up[k].remaining),
                                             !.n = n,
                                             !.off = @ + n,
                                             !.remaining = @ - n,
                                             !.armed = FALSE,
                                             !.pc = "rearm"]]
    /\ UNCHANGED <<flags, pcMain, i, w, mu, total, times, dl, faults, report>>

\* stream.Write returns an error: log and return (the deferred calls run next).
UpWriteErr(k) ==
    /\ up[k].pc = "write"
    /\ up' = [up EXCEPT ![k] = [@ EXCEPT !.lo = up[k].off,
                                         !.chunk = Chunk(up[k].remaining),
                                         !.n = 0,
                                         !.werr = TRUE, !.armed = FALSE, !.pc = "close"]]
    /\ faults' = TRUE
    /\ UNCHANGED <<flags, pcMain, i, w, mu, total, times, dl, report>>

\* Mutant: the deadline is set once, before the loop, and not refreshed.
UpRearmNever(k) ==
    /\ up[k].pc = "rearm"
    /\ up' = [up EXCEPT ![k] = [@ EXCEPT !.pc = IF up[k].remaining > 0 THEN "write" ELSE "close"]]
    /\ UNCHANGED <<flags, pcMain, i, w, mu, total, times, dl, faults, report>>

\* SetWriteDeadline at the end of the loop body, then the loop test.
UpRearm(k) ==
    /\ up[k].pc = "rearm"
    /\ up' = [up EXCEPT ![k] = [@ EXCEPT !.armed = TRUE,
                                         !.pc = IF up[k].remaining > 0 THEN "write" ELSE "close"]]
    /\ UNCHANGED <<flags, pcMain, i, w, mu, total, times, dl, faults, report>>

\* Mutant: stream.Close() is the last statement of the loop's normal exit,
\* not a deferred call.
UpCloseUnlessError(k) ==
    /\ up[k].pc = "close"
    /\ up' = [up EXCEPT ![k] = [@ EXCEPT !.closed = IF up[k].werr THEN @ ELSE @ + 1,
                                         !.pc = "exit"]]
    /\ UNCHANGED <<flags, pcMain, i, w, mu, total, times, dl, faults, report>>

\* defer stream.Close()
UpClose(k) ==
    /\ up[k].pc = "close"
    /\ up' = [up EXCEPT ![k] = [@ EXCEPT !.closed = @ + 1, !.pc = "exit"]]
    /\ UNCHANGED <<flags, pcMain, i, w, mu, total, times, dl, faults, report>>

\* defer w.Done(); the goroutine is gone, its locals with it.
UpDone(k) ==
    /\ up[k].pc = "exit"
    /\ w' = w - 1
    /\ up' = [up EXCEPT ![k] = UpNone]
    /\ UNCHANGED <<flags, pcMain, i, mu, total, times, dl, faults, report>>

\* The for loop ends, w.Wait() returns; total, times, expected, w = WaitGroup{}.
MainUploadWait ==
    /\ pcMain = "open"
    /\ i >= numberStream
    /\ UploadBarrier(w)
    /\ pcMain' = "spawn"
    /\ total' = 0
    /\ times' = <<>>
    /\ w' = 0
    /\ i' = 0
    /\ UNCHANGED <<flags, mu, up, dl, faults, report>>

\* --------------------------------------------------------- download phase

\* Mutant: -uni makes the receive-only accept the first call.
FirstAcceptByFlag(uni) == IF uni THEN "acceptUni" ELSE "acceptBidi"

\* The first call of a download goroutine: sess.AcceptStream, whatever -uni says.
FirstAccept(uni) == "acceptBidi"

\* The lengths of the stream the peer sends: empty, or the echo of one upload.
StreamLens == {0, dataSize}

\* The byte counts a Read into buf may return when the peer has r bytes left to
\* deliver: nothing, all that fits, or one byte less.
ReadCounts(r) ==
    LET m == Min(BufSize, r)
    IN  {0, m} \cup (IF m > 1 THEN {m - 1} ELSE {})

\* The results <<n, rerr>> of one Read: io.EOF only once the peer's bytes are all
\* delivered (with the last bytes or after them); any error may come with n > 0.
ReadOutcomes(r, tos) ==
    {o \in ReadCounts(r) \X ReadErrs :
        /\ (o[2] = "EOF" => r - o[1] = 0)
        /\ (o[2] = "timeout" => tos < MaxTimeouts)}

\* Mutant: the bytes of a read that also returned an error are dropped.
AddsBytesNoErr(n, rerr) == n > 0 /\ rerr = "nil"

\* if n > 0 { mu.Lock(); total += n; mu.Unlock() }: asked before rerr is looked at.
AddsBytes(n, rerr) == n > 0

\* Mutant: no mutual exclusion.
LockFreeAlways(m) == TRUE

\* mu.Lock() returns only when no goroutine holds mu.
LockFree(m) == m = 0

\* Mutant: a timeout is an error like any other.
ToleratedNever(rerr) == FALSE

\* te, ok := rerr.(tErr); ok && te.Timeout()
Tolerated(rerr) == rerr = "timeout"

\* Mutant: only end-of-stream ends the loop (the final break is missing).
AfterReadEofOnly(rerr) == IF rerr = "EOF" THEN "exit" ELSE "loop"

\* if rerr != nil { if rerr == io.EOF { break }; if timeout { continue }; break }
AfterRead(rerr) ==
    IF rerr = "nil" THEN "loop"
    ELSE IF rerr = "EOF" THEN "exit"
    ELSE IF Tolerated(rerr) THEN "loop"
    ELSE "exit"

\* Mutant: the report does not wait for the download goroutines.
DownloadBarrierMissing(cnt) == TRUE

\* w.Wait() of the download phase returns when the counter is zero.
DownloadBarrier(cnt) == cnt = 0

\* w.Add(1); go func(ix)
MainSpawn ==
    /\ pcMain = "spawn"
    /\ i < numberStream
    /\ w' = w + 1
    /\ dl' = [dl EXCEPT ![i + 1] = [DlNone EXCEPT !.pc = FirstAccept(downloadUni)]]
    /\ i' = i + 1
    /\ UNCHANGED <<flags, pcMain, mu, total, times, up, faults, report>>

\* sess.AcceptStream(ctx) returns a stream: defer s.Close(), buf, t1.
DlAcceptBidiOk(t) ==
    /\ dl[t].pc = "acceptBidi"
    /\ \E len \in StreamLens :
          /\ dl' = [dl EXCEPT ![t] = [@ EXCEPT !.stream = "bidi", !.hasDL = TRUE,
                                               !.rem = len, !.bidiTries = @ + 1,
                                               !.pc = "bArm"]]
          /\ faults' = (faults \/ len # dataSize)
    /\ UNCHANGED <<flags, pcMain, i, w, mu, total, times, up, report>>

\* sess.AcceptStream(ctx) returns an error: fall back to the receive-only accept.
DlAcceptBidiErr(t) ==
    /\ dl[t].pc = "acceptBidi"
    /\ dl' = [dl EXCEPT ![t] = [@ EXCEPT !.bidiTries = @ + 1, !.pc = "acceptUni"]]
    /\ UNCHANGED <<flags, pcMain, i, w, mu, total, times, up, faults, report>>

\* sess.AcceptUniStream(ctx2) returns a stream, with or without SetReadDeadline.
DlAcceptUniOk(t) ==
    /\ dl[t].pc = "acceptUni"
    /\ \E len \in StreamLens, c \in BOOLEAN :
          /\ dl' = [dl EXCEPT ![t] = [@ EXCEPT !.stream = "uni", !.hasDL = c,
                                               !.rem = len, !.uniTries = @ + 1,
                                               !.pc = "uArm"]]
          /\ faults' = (faults \/ len # dataSize)
    /\ UNCHANGED <<flags, pcMain, i, w, mu, total, times, up, report>>

\* Mutant: the failed task leaves through the tail of the read loop and
\* records a duration.
DlAcceptUniErrRecords(t) ==
    /\ dl[t].pc = "acceptUni"
    /\ dl' = [dl EXCEPT ![t] = [@ EXCEPT !.uniTries = @ + 1, !.pc = "uTimesLock"]]
    /\ faults' = TRUE
    /\ UNCHANGED <<flags, pcMain, i, w, mu, total, times, up, report>>

\* sess.AcceptUniStream(ctx2) returns an error: log both errors and return.
DlAcceptUniErr(t) ==
    /\ dl[t].pc = "acceptUni"
    /\ dl' = [dl EXCEPT ![t] = [@ EXCEPT !.uniTries = @ + 1, !.pc = "exitFail"]]
    /\ faults' = TRUE
    /\ UNCHANGED <<flags, pcMain, i, w, mu, total, times, up, report>>

\* The deadline call at the top of a read loop; arms says whether it is made.
ArmStep(t, from, to, arms) ==
    /\ dl[t].pc = from
    /\ dl' = [dl EXCEPT ![t] = [@ EXCEPT !.armed = arms, !.pc = to]]
    /\ UNCHANGED <<flags, pcMain, i, w, mu, total, times, up, faults, report>>

\* n, rerr := Read(buf), and the test n > 0.
ReadStep(t, from, toAdd, toErr) ==
    /\ dl[t].pc = from
    /\ \E o \in ReadOutcomes(dl[t].rem, dl[t].tos) :
          /\ dl' = [dl EXCEPT ![t] = [@ EXCEPT
                        !.n = o[1], !.rerr = o[2],
                        !.rem = @ - o[1], !.got = @ + o[1],
                        !.tos = IF o[2] = "timeout" THEN @ + 1 ELSE 0,
                        !.armed = FALSE,
                        !.pc = IF AddsBytes(o[1], o[2]) THEN toAdd ELSE toErr]]
          /\ faults' = (faults \/ o[2] \in {"timeout", "other"})
    /\ UNCHANGED <<flags, pcMain, i, w, mu, total, times, up, report>>

\* mu.Lock()
LockStep(t, from, to) ==
    /\ dl[t].pc = from
    /\ LockFree(mu)
    /\ mu' = t
    /\ dl' = [dl EXCEPT ![t] = [@ EXCEPT !.pc = to]]
    /\ UNCHANGED <<flags, pcMain, i, w, total, times, up, faults, report>>

\* total += n, first half: the load of total.
LoadStep(t, from, to) ==
    /\ dl[t].pc = from
    /\ dl' = [dl EXCEPT ![t] = [@ EXCEPT !.reg = total, !.pc = to]]
    /\ UNCHANGED <<flags, pcMain, i, w, mu, total, times, up, faults, report>>

\* total += n, second half: the store of the sum.
StoreStep(t, from, to) ==
    /\ dl[t].pc = from
    /\ total' = dl[t].reg + dl[t].n
    /\ dl' = [dl EXCEPT ![t] = [@ EXCEPT !.reg = 0, !.pc = to]]
    /\ UNCHANGED <<flags, pcMain, i, w, mu, times, up, faults, report>>

\* mu.Unlock()
UnlockStep(t, from, to) ==
    /\ dl[t].pc = from
    /\ mu' = 0
    /\ dl' = [dl EXCEPT ![t] = [@ EXCEPT !.pc = to]]
    /\ UNCHANGED <<flags, pcMain, i, w, total, times, up, faults, report>>

\* if rerr != nil { ... }: back to the top of the loop, or out of it.
ErrStep(t, from, toLoop, toExit) ==
    /\ dl[t].pc = from
    /\ dl' = [dl EXCEPT ![t] = [@ EXCEPT
                  !.n = 0,
                  !.rerr = IF AfterRead(dl[t].rerr) = "loop" THEN "nil" ELSE @,
                  !.pc = IF AfterRead(dl[t].rerr) = "loop" THEN toLoop ELSE toExit]]
    /\ UNCHANGED <<flags, pcMain, i, w, mu, total, times, up, faults, report>>

\* times = append(times, time.Since(t1))
AppendStep(t, from, to) ==
    /\ dl[t].pc = from
    /\ \E d \in Durations : times' = Append(times, d)
    /\ dl' = [dl EXCEPT ![t] = [@ EXCEPT !.durs = @ + 1, !.pc = to]]
    /\ UNCHANGED <<flags, pcMain, i, w, mu, total, up, faults, report>>

\* The read loop of the receive-only stream.
DlUniArm(t) == ArmStep(t, "uArm", "uRead", dl[t].hasDL)
DlUniRead(t) == ReadStep(t, "uRead", "uLock", "uErr")
DlUniLock(t) == LockStep(t, "uLock", "uLoad")
DlUniLoad(t) == LoadStep(t, "uLoad", "uStore")
DlUniStore(t) == StoreStep(t, "uStore", "uUnlock")
DlUniUnlock(t) == UnlockStep(t, "uUnlock", "uErr")
DlUniErr(t) == ErrStep(t, "uErr", "uArm", "uTimesLock")
\* Mutant: the receive-only branch returns at the end of its loop, without
\* the append to times.
DlUniTimesSkipped(t) ==
    /\ dl[t].pc = "uTimesLock"
    /\ dl' = [dl EXCEPT ![t] = [@ EXCEPT !.pc = "exit"]]
    /\ UNCHANGED <<flags, pcMain, i, w, mu, total, times, up, faults, report>>
DlUniTimesLock(t) == LockStep(t, "uTimesLock", "uAppend")
DlUniAppend(t) == AppendStep(t, "uAppend", "uTimesUnlock")
\* mu.Unlock(); return: the receive-only stream is left as it is.
DlUniTimesUnlock(t) == UnlockStep(t, "uTimesUnlock", "exit")

\* The read loop of the duplex stream.
DlBidiArm(t) == ArmStep(t, "bArm", "bRead", TRUE)
DlBidiRead(t) == ReadStep(t, "bRead", "bLock", "bErr")
DlBidiLock(t) == LockStep(t, "bLock", "bLoad")
DlBidiLoad(t) == LoadStep(t, "bLoad", "bStore")
DlBidiStore(t) == StoreStep(t, "bStore", "bUnlock")
DlBidiUnlock(t) == UnlockStep(t, "bUnlock", "bErr")
\* Mutant: continue goes to the Read, past the deadline call.
DlBidiErrToRead(t) == ErrStep(t, "bErr", "bRead", "bTimesLock")
DlBidiErr(t) == ErrStep(t, "bErr", "bArm", "bTimesLock")
\* Mutant: the append to times is made without mu.Lock().
DlBidiTimesNoLock(t) ==
    /\ dl[t].pc = "bTimesLock"
    /\ dl' = [dl EXCEPT ![t] = [@ EXCEPT !.pc = "bAppend"]]
    /\ UNCHANGED <<flags, pcMain, i, w, mu, total, times, up, faults, report>>
DlBidiTimesLock(t) == LockStep(t, "bTimesLock", "bAppend")
DlBidiAppend(t) == AppendStep(t, "bAppend", "bTimesUnlock")
DlBidiTimesUnlock(t) == UnlockStep(t, "bTimesUnlock", "bClose")

\* defer s.Close() of the duplex stream.
DlBidiClose(t) ==
    /\ dl[t].pc = "bClose"
    /\ dl' = [dl EXCEPT ![t] = [@ EXCEPT !.closed = @ + 1, !.pc = "exit"]]
    /\ UNCHANGED <<flags, pcMain, i, w, mu, total, times, up, faults, report>>

\* Mutant: the return after two failed accepts does not run w.Done().
DlDoneUnlessFailed(t) ==
    /\ dl[t].pc \in {"exit", "exitFail"}
    /\ w' = IF dl[t].pc = "exitFail" THEN w ELSE w - 1
    /\ dl' = [dl EXCEPT ![t] = [@ EXCEPT
                  !.pc = IF dl[t].pc = "exitFail" THEN "Failed" ELSE "Done",
                  !.rem = 0, !.n = 0, !.rerr = "nil", !.reg = 0, !.tos = 0,
                  !.armed = FALSE, !.hasDL = FALSE]]
    /\ UNCHANGED <<flags, pcMain, i, mu, total, times, up, faults, report>>

\* defer w.Done(); the goroutine is gone, its locals with it.
DlDone(t) ==
    /\ dl[t].pc \in {"exit", "exitFail"}
    /\ w' = w - 1
    /\ dl' = [dl EXCEPT ![t] = [@ EXCEPT
                  !.pc = IF dl[t].pc = "exitFail" THEN "Failed" ELSE "Done",
                  !.rem = 0, !.n = 0, !.rerr = "nil", !.reg = 0, !.tos = 0,
                  !.armed = FALSE, !.hasDL = FALSE]]
    /\ UNCHANGED <<flags, pcMain, i, mu, total, times, up, faults, report>>

\* The for loop ends and w.Wait() returns.
MainDownloadWait ==
    /\ pcMain = "spawn"
    /\ i >= numberStream
    /\ DownloadBarrier(w)
    /\ pcMain' = "check"
    /\ UNCHANGED <<flags, i, w, mu, total, times, up, dl, faults, report>>

\* ------------------------------------------------------------------ report

\* Mutant: only the duration collection is looked at.
NoDataLenOnly(ts, tot) == Len(ts) = 0

\* len(times) == 0 || total == 0
NoData(ts, tot) == Len(ts) = 0 \/ tot = 0

RECURSIVE SumDur(_)
\* for _, d := range times { totalDur += d }
SumDur(ts) == IF ts = <<>> THEN 0 ELSE Head(ts) + SumDur(Tail(ts))

\* if len(times) == 0 || total == 0 { "No data received."; return }
MainCheck ==
    /\ pcMain = "check"
    /\ IF NoData(times, total)
       THEN /\ pcMain' = "end"
            /\ report' = [report EXCEPT !.outcome = "nodata"]
       ELSE /\ pcMain' = "average"
            /\ UNCHANGED report
    /\ UNCHANGED <<flags, i, w, mu, total, times, up, dl, faults>>

\* avgDur := totalDur / time.Duration(len(times))
MainAverage ==
    /\ pcMain = "average"
    /\ pcMain' = "throughput"
    /\ report' = [report EXCEPT !.averaged = TRUE,
                                !.divisor = Len(times),
                                !.avgDur = IF Len(times) = 0 THEN 0
                                           ELSE SumDur(times) \div Len(times)]
    /\ UNCHANGED <<flags, i, w, mu, total, times, up, dl, faults>>

\* The largest power of two that divides a and b (b > 0).
Pow2Gcd(a, b) ==
    LET k == CHOOSE e \in 0..30 :
                 /\ a % 2^e = 0
                 /\ b % 2^e = 0
                 /\ e = 30 \/ a % 2^(e + 1) # 0 \/ b % 2^(e + 1) # 0
    IN  2^k

\* The largest divisor of Second = 2^9 * 5^9 that divides dur.
SecondGcd(dur) ==
    LET a == CHOOSE e \in 0..9 : dur % 2^e = 0 /\ (e = 9 \/ dur % 2^(e + 1) # 0)
        b == CHOOSE e \in 0..9 : dur % 5^e = 0 /\ (e = 9 \/ dur % 5^(e + 1) # 0)
    IN  2^a * 5^b

\* float64(x)
Float(x) == [inf |-> FALSE, n |-> x, d |-> 1]

\* time.Duration.Seconds(): the duration in nanoseconds over 10^9, as a float64.
Seconds(dur) ==
    LET g == SecondGcd(dur)
    IN  [inf |-> FALSE, n |-> dur \div g, d |-> Second \div g]

\* x / y on float64 values with x > 0 and y >= 0: +Inf when y is zero. The
\* quotient is kept exact; the float64 result is its nearest float64.
Quot(x, y) ==
    IF x.inf \/ y.n = 0 THEN Inf
    ELSE LET n == x.n * y.d
             d == x.d * y.n
             g == Pow2Gcd(n, d)
         IN  [inf |-> FALSE, n |-> n \div g, d |-> d \div g]

\* bps := float64(total*8) / avgDur.Seconds()
Bps(tot, avgDur) == Quot(Float(tot * 8), Seconds(avgDur))

\* Mutant: the decimal mega.
MbpsDecimal(bps) == Quot(bps, Float(1000000))

\* Mbps := bps / ratio
Mbps(bps) == Quot(bps, Float(ratio))

\* bps := float64(total*8) / avgDur.Seconds(); Mbps := bps / ratio; the Printf.
MainThroughput ==
    /\ pcMain = "throughput"
    /\ pcMain' = "end"
    /\ report' = [report EXCEPT !.outcome = "speed", !.divided = TRUE,
                                !.bits = total * 8,
                                !.bps = Bps(total, report.avgDur),
                                !.mbps = Mbps(Bps(total, report.avgDur))]
    /\ UNCHANGED <<flags, i, w, mu, total, times, up, dl, faults>>

\* The report as a function of total and times: every other variable is as
\* the download barrier leaves it. The durations include 0 and a whole second,
\* and one pair whose sum is odd.
ReportTotals == {0, ChunkSize + ExtraData, ratio, 2 * ratio}
ReportDurs == {0, Second} \cup Durations
ReportTimes ==
    {<<>>} \cup {<<d>> : d \in ReportDurs}
           \cup {<<d, e>> : d \in ReportDurs, e \in ReportDurs}
           \cup {<<Second, Second + 1>>, <<Second + 1, Second>>}

ReportInit ==
    /\ total \in ReportTotals
    /\ times \in ReportTimes
    /\ pcMain = "check"
    /\ numberStream = MaxStreams
    /\ dataSize = 0
    /\ downloadUni = FALSE
    /\ i = MaxStreams
    /\ w = 0
    /\ mu = 0
    /\ up = [k \in Streams |-> UpNone]
    /\ dl = [t \in Streams |-> DlNone]
    /\ faults = FALSE
    /\ report = NoReport
    /\ gen = GenIdle

ReportNext == MainCheck \/ MainAverage \/ MainThroughput

ReportSpec == ReportInit /\ [][ReportNext]_vars

\* ---------------------------------------------------------- specification

Next ==
    \/ MainOpen
    \/ MainOpenErr
    \/ MainOpenSkip
    \/ MainOpenSpawn
    \/ MainUploadWait
    \/ MainSpawn
    \/ MainDownloadWait
    \/ MainCheck
    \/ MainAverage
    \/ MainThroughput
    \/ \E k \in Streams :
          \/ UpArm(k)
          \/ UpWriteOk(k)
          \/ UpWriteErr(k)
          \/ UpRearm(k)
          \/ UpClose(k)
          \/ UpDone(k)
    \/ \E t \in Streams :
          \/ DlAcceptBidiOk(t)
          \/ DlAcceptBidiErr(t)
          \/ DlAcceptUniOk(t)
          \/ DlAcceptUniErr(t)
          \/ DlUniArm(t)
          \/ DlUniRead(t)
          \/ DlUniLock(t)
          \/ DlUniLoad(t)
          \/ DlUniStore(t)
          \/ DlUniUnlock(t)
          \/ DlUniErr(t)
          \/ DlUniTimesLock(t)
          \/ DlUniAppend(t)
          \/ DlUniTimesUnlock(t)
          \/ DlBidiArm(t)
          \/ DlBidiRead(t)
          \/ DlBidiLock(t)
          \/ DlBidiLoad(t)
          \/ DlBidiStore(t)
          \/ DlBidiUnlock(t)
          \/ DlBidiErr(t)
          \/ DlBidiTimesLock(t)
          \/ DlBidiAppend(t)
          \/ DlBidiTimesUnlock(t)
          \/ DlBidiClose(t)
          \/ DlDone(t)

Spec == Init /\ [][Next]_vars

\* The scheduler runs a goroutine that can take a step, and a call into the
\* session returns: the program does not stop while a step is possible.
FairSpec == Spec /\ WF_vars(Next)

\* The steps of main from the spawning of the download goroutines on.
MainDownload ==
    MainSpawn \/ MainDownloadWait \/ MainCheck \/ MainAverage \/ MainThroughput

\* The steps of download goroutine t.
DlTask(t) ==
    \/ DlAcceptBidiOk(t) \/ DlAcceptBidiErr(t) \/ DlAcceptUniOk(t) \/ DlAcceptUniErr(t)
    \/ DlUniArm(t) \/ DlUniRead(t) \/ DlUniLock(t) \/ DlUniLoad(t) \/ DlUniStore(t)
    \/ DlUniUnlock(t) \/ DlUniErr(t) \/ DlUniTimesLock(t) \/ DlUniAppend(t)
    \/ DlUniTimesUnlock(t)
    \/ DlBidiArm(t) \/ DlBidiRead(t) \/ DlBidiLock(t) \/ DlBidiLoad(t) \/ DlBidiStore(t)
    \/ DlBidiUnlock(t) \/ DlBidiErr(t) \/ DlBidiTimesLock(t) \/ DlBidiAppend(t)
    \/ DlBidiTimesUnlock(t) \/ DlBidiClose(t) \/ DlDone(t)

\* main and every download goroutine are scheduled, and every call into the
\* session or a stream returns (an accept with a stream or an error, a Read
\* with any of its outcomes).
DownloadFairSpec ==
    /\ Spec
    /\ WF_vars(MainDownload)
    /\ \A t \in Streams : WF_vars(DlTask(t))

\* ------------------------------------------------------------- properties

UploadPcs == {"open", "opening", "openErr"}
ReportPcs == {"check", "average", "throughput", "end"}
AddPcs == {"uLock", "uLoad", "uStore", "bLock", "bLoad", "bStore"}
LoopPcs == {"uArm", "uRead", "uLock", "uLoad", "uStore", "uUnlock", "uErr",
            "bArm", "bRead", "bLock", "bLoad", "bStore", "bUnlock", "bErr"}
LeavePcs == {"uTimesLock", "uAppend", "uTimesUnlock",
             "bTimesLock", "bAppend", "bTimesUnlock", "bClose", "exit"}

RECURSIVE SumOver(_, _)
\* The sum of f(1) .. f(n).
SumOver(f, n) == IF n = 0 THEN 0 ELSE f[n] + SumOver(f, n - 1)

\* The bytes task t has read whose increment of total is not completed yet.
Pending(t) == IF dl[t].pc \in AddPcs THEN dl[t].n ELSE 0

\* C1: phase ordering. Whenever a download goroutine exists (it is spawned at
\* its first step, the duplex accept), main has left the open loop for good and
\* every upload goroutine that was spawned has returned: no upload step can
\* follow the first download step.
C1_PhaseOrdering ==
    (\E t \in Streams : dl[t].pc # "none")
        => /\ pcMain \notin UploadPcs
           /\ \A k \in Streams : up[k].pc = "none"

\* Both uploads were opened and written in full, and a download task reads.
C1_Witness ==
    /\ numberStream = MaxStreams
    /\ dataSize > 0
    /\ ~faults
    /\ \E t \in Streams : dl[t].pc = "bRead"

\* C2: no lost updates. In every reachable state total is the sum, over the
\* download tasks, of the bytes of their reads whose increment has completed
\* (reads that came with an error or end-of-stream included); once the
\* download barrier is passed it is the sum of the bytes of all reads.
C2_NoLostUpdates ==
    /\ total = SumOver([t \in Streams |-> dl[t].got - Pending(t)], MaxStreams)
    /\ pcMain \in ReportPcs => total = SumOver([t \in Streams |-> dl[t].got], MaxStreams)

\* One task is inside its increment while another, whose read returned bytes
\* together with an error, waits for the lock; both have added bytes before.
C2_Witness ==
    \E t, u \in Streams :
        /\ t # u
        /\ dl[t].pc \in {"uStore", "bStore"}
        /\ dl[u].pc \in {"uLock", "bLock"}
        /\ dl[u].rerr \in {"EOF", "other"}
        /\ dl[t].got > dl[t].n
        /\ dl[u].got > dl[u].n

\* C3: end-to-end conservation. If no open, write, accept or read fault
\* occurred and every inbound stream carried dataSize bytes, then after the
\* download barrier total = numberStream * dataSize.
C3_Conservation ==
    (pcMain \in ReportPcs /\ ~faults) => total = numberStream * dataSize

\* A fault-free run with a duplex and a receive-only stream, at the report.
C3_Witness ==
    /\ pcMain = "check"
    /\ ~faults
    /\ numberStream = MaxStreams
    /\ dataSize > BufSize
    /\ \E t, u \in Streams : dl[t].stream = "bidi" /\ dl[u].stream = "uni"

\* Both accepts of task t have returned an error.
BothAcceptsFailed(t) ==
    dl[t].bidiTries = 1 /\ dl[t].uniTries = 1 /\ dl[t].stream = "none"

\* The download goroutines that exist and have not returned.
LiveDl == {t \in Streams : dl[t].pc \notin {"none", "Done", "Failed"}}

C4_FailedInv ==
    /\ \A t \in Streams :
          BothAcceptsFailed(t)
              => /\ dl[t].pc \in {"exitFail", "Failed"}
                 /\ dl[t].got = 0
                 /\ dl[t].durs = 0
                 /\ dl[t].closed = 0
                 /\ mu # t
    /\ pcMain = "spawn" => w = Cardinality(LiveDl)

C4_FailStep ==
    \A t \in Streams :
        /\ (~BothAcceptsFailed(t) /\ BothAcceptsFailed(t)')
              => /\ total' = total /\ times' = times /\ mu' = mu /\ w' = w
                 /\ \A u \in Streams \ {t} : dl'[u] = dl[u]
        /\ (dl[t].pc = "exitFail" /\ dl'[t].pc # "exitFail")
              => /\ dl'[t].pc = "Failed"
                 /\ total' = total /\ times' = times /\ mu' = mu /\ w' = w - 1
                 /\ \A u \in Streams \ {t} : dl'[u] = dl[u]

\* C4: accept-failure isolation. A download task whose duplex accept and whose
\* receive-only accept both failed is on its way to Failed or there, has added
\* no byte, recorded no duration, closed nothing and does not hold the lock;
\* the failing step and its return change nothing but this task and the
\* WaitGroup counter, which always counts exactly the tasks still running.
C4_AcceptFailureIsolated == []C4_FailedInv /\ [][C4_FailStep]_vars

\* One task has Failed; the other has read bytes to Done and is the only entry.
C4_Witness ==
    /\ pcMain = "check"
    /\ Len(times) = 1
    /\ \E t, u \in Streams :
          /\ dl[t].pc = "Failed"
          /\ dl[u].pc = "Done"
          /\ dl[u].got > 0
          /\ total = dl[u].got

UniPcs == {"uArm", "uRead", "uLock", "uLoad", "uStore", "uUnlock", "uErr",
           "uTimesLock", "uAppend", "uTimesUnlock"}
BidiPcs == {"bArm", "bRead", "bLock", "bLoad", "bStore", "bUnlock", "bErr",
            "bTimesLock", "bAppend", "bTimesUnlock", "bClose"}

C5_OrderInv ==
    \A t \in Streams :
        /\ dl[t].bidiTries <= 1
        /\ dl[t].uniTries <= 1
        /\ dl[t].pc # "none" => (dl[t].bidiTries = 0 <=> dl[t].pc = "acceptBidi")
        /\ dl[t].uniTries = 1 => (dl[t].bidiTries = 1 /\ dl[t].stream # "bidi")
        /\ dl[t].stream = "bidi"
              <=> (dl[t].bidiTries = 1 /\ dl[t].uniTries = 0 /\ dl[t].pc # "acceptUni")
        /\ dl[t].pc \in BidiPcs => dl[t].stream = "bidi"
        /\ dl[t].pc \in UniPcs => dl[t].stream = "uni"

C5_OrderStep ==
    \A t \in Streams :
        /\ dl'[t].bidiTries # dl[t].bidiTries
              => (dl[t].bidiTries = 0 /\ dl[t].uniTries = 0)
        /\ dl'[t].uniTries # dl[t].uniTries
              => (dl[t].bidiTries = 1 /\ dl[t].stream = "none")
        /\ dl[t].stream # "none" => dl'[t].stream = dl[t].stream
        /\ dl'[t].got # dl[t].got => dl[t].pc \in {"uRead", "bRead"}

C6_BarrierInv ==
    pcMain \in ReportPcs
        => /\ \A t \in 1..numberStream : dl[t].pc \in {"Done", "Failed"}
           /\ mu = 0
           /\ w = 0

C6_BarrierStep ==
    pcMain \in ReportPcs => (total' = total /\ times' = times /\ dl' = dl /\ mu' = mu)

\* C6: download barrier. The report steps run only when all numberStream
\* download tasks are Done or Failed and the lock is free, and from then on
\* total, times and the tasks no longer change.
C6_DownloadBarrier == []C6_BarrierInv /\ [][C6_BarrierStep]_vars

\* The throughput step, with every task Done and a duration from each.
C6_Witness ==
    /\ pcMain = "throughput"
    /\ numberStream = MaxStreams
    /\ Len(times) = MaxStreams
    /\ total > BufSize

\* C7: no-data condition. Past the check, an empty times or a zero total means
\* the run has ended with "no data received" and neither division was made;
\* the averaging division is made only with a divisor of at least 1.
C7_NoData ==
    /\ (pcMain \in {"average", "throughput", "end"} /\ (Len(times) = 0 \/ total = 0))
          => /\ pcMain = "end"
             /\ report.outcome = "nodata"
             /\ ~report.averaged
             /\ ~report.divided
    /\ report.averaged => report.divisor >= 1
    /\ report.divided => report.averaged
    /\ report.outcome = "nodata" => (~report.averaged /\ ~report.divided)

\* No data received although every task recorded a duration: total is 0.
C7_Witness ==
    /\ pcMain = "end"
    /\ report.outcome = "nodata"
    /\ Len(times) = MaxStreams
    /\ total = 0
    /\ dataSize > 0

C8_TimeoutInv ==
    \A t \in Streams :
        /\ dl[t].tos > 0
              => /\ dl[t].pc \in LoopPcs
                 /\ dl[t].durs = 0
                 /\ dl[t].closed = 0
        /\ dl[t].rerr = "timeout" => dl[t].tos > 0

C8_TimeoutStep ==
    \A t \in Streams :
        /\ (dl[t].rerr = "timeout" /\ dl[t].pc = "uErr" /\ dl'[t] # dl[t])
              => (dl'[t].pc = "uArm" /\ dl'[t].tos = dl[t].tos)
        /\ (dl[t].rerr = "timeout" /\ dl[t].pc = "bErr" /\ dl'[t] # dl[t])
              => (dl'[t].pc = "bArm" /\ dl'[t].tos = dl[t].tos)
        /\ (dl[t].pc = "uArm" /\ dl'[t] # dl[t]) => dl'[t].pc = "uRead"
        /\ (dl[t].pc = "bArm" /\ dl'[t] # dl[t]) => dl'[t].pc = "bRead"
        /\ (dl[t].tos > 0 /\ dl[t].pc \notin {"uRead", "bRead"})
              => (dl'[t].tos = dl[t].tos /\ dl'[t].durs = 0 /\ dl'[t].closed = 0)

\* C8: read timeouts are tolerated. In both read loops, while the last read of
\* a task returned a timeout (tos counts them in a row) the task is inside its
\* read loop, has recorded no duration and closed nothing; the error check of
\* such a read leads back to the top of the loop, from where the next step is
\* another read; only a read that returns something else ends the row.
C8_TimeoutTolerated == []C8_TimeoutInv /\ [][C8_TimeoutStep]_vars

\* After MaxTimeouts timeouts in a row, on a duplex and on a receive-only
\* stream, both tasks are about to read again.
C8_Witness ==
    /\ MaxTimeouts >= 2
    /\ \E t, u \in Streams :
          /\ dl[t].pc = "bRead" /\ dl[t].tos = MaxTimeouts
          /\ dl[u].pc = "uRead" /\ dl[u].tos = MaxTimeouts

Recorded == {"uTimesUnlock", "bTimesUnlock", "bClose", "exit", "Done"}

C9_ExitInv ==
    /\ \A t \in Streams :
          /\ dl[t].pc \in LeavePcs => dl[t].rerr \in {"EOF", "other"}
          /\ dl[t].durs = (IF dl[t].pc \in Recorded THEN 1 ELSE 0)
    /\ Len(times) = SumOver([t \in Streams |-> dl[t].durs], MaxStreams)
    /\ pcMain \in ReportPcs
          => /\ Len(times) = Cardinality({t \in Streams : dl[t].pc = "Done"})
             /\ Len(times) <= numberStream

C9_ExitStep ==
    /\ \A t \in Streams :
          /\ (dl[t].pc \in LoopPcs /\ dl'[t].pc \notin LoopPcs)
                => /\ dl[t].pc \in {"uErr", "bErr"}
                   /\ dl[t].rerr \in {"EOF", "other"}
                   /\ dl'[t].pc \in {"uTimesLock", "bTimesLock"}
          /\ (dl[t].pc \in {"uErr", "bErr"} /\ dl[t].rerr \in {"EOF", "other"}
                /\ dl'[t] # dl[t])
                => dl'[t].pc \in {"uTimesLock", "bTimesLock"}
          /\ dl'[t].got >= dl[t].got
    /\ total' >= total
    /\ Len(times') >= Len(times)

\* C9: read-loop exit. A task leaves its read loop exactly at the error check
\* of a read that returned end-of-stream or a non-timeout error; a task past
\* the append has recorded exactly one duration, any other none; total never
\* decreases; at the report the number of durations is the number of tasks
\* that reached Done, at most numberStream.
C9_ReadLoopExit == []C9_ExitInv /\ [][C9_ExitStep]_vars

\* At the report: one task Failed, the other was cut off by a read error after
\* part of the data, which is kept, and recorded the only duration.
C9_Witness ==
    /\ pcMain = "check"
    /\ Len(times) = 1
    /\ \E t, u \in Streams :
          /\ dl[t].pc = "Failed"
          /\ dl[u].pc = "Done"
          /\ dl[u].got > 0 /\ dl[u].got < dataSize
          /\ total = dl[u].got

\* The upload goroutines that exist and have not returned.
LiveUp == {k \in Streams : up[k].pc # "none"}

C10_UploadInv ==
    /\ pcMain \in UploadPcs => w = Cardinality(LiveUp)
    /\ pcMain = "openErr" => up[i + 1].pc = "none"
    /\ \A k \in Streams :
          /\ up[k].werr => up[k].pc \in {"close", "exit"}
          /\ (pcMain \in UploadPcs /\ k > i + 1) => up[k].pc = "none"

C10_UploadStep ==
    /\ (pcMain = "openErr" /\ pcMain' # pcMain)
          => (pcMain' = "open" /\ i' = i + 1 /\ w' = w /\ up' = up)
    /\ \A k \in Streams :
          /\ (up[k].pc = "none" /\ up'[k].pc # "none")
                => (pcMain = "opening" /\ pcMain' = "open" /\ k = i + 1 /\ w' = w + 1)
          /\ (~up[k].werr /\ up'[k].werr)
                => /\ up[k].pc = "write"
                   /\ \A j \in Streams \ {k} : up'[j] = up[j]
                   /\ pcMain' = pcMain /\ i' = i /\ w' = w
          /\ (up[k].werr /\ up'[k] # up[k])
                => /\ \A j \in Streams \ {k} : up'[j] = up[j]
                   /\ pcMain' = pcMain /\ i' = i

\* C10: upload failure isolation. A failed open spawns no goroutine for its
\* index and main goes on to the next index; a goroutine exists only for an
\* index whose open succeeded; a write error is met while writing, leaves the
\* other goroutines, main and the WaitGroup counter as they are, and the task
\* only closes and returns afterwards (no retry); the counter always counts
\* the goroutines still running, and the run always leaves the upload phase
\* and reaches the spawning of the download tasks.
C10_UploadIsolation ==
    /\ []C10_UploadInv
    /\ [][C10_UploadStep]_vars
    /\ <>(pcMain = "spawn")

\* The task of index 0 was aborted by a write error after part of the payload
\* and has not returned yet; the open of index 1 has just failed.
C10_Witness ==
    /\ pcMain = "openErr"
    /\ i = 1
    /\ up[1].werr
    /\ up[1].off > 0
    /\ up[1].pc = "close"

\* C11 as stated: the opens are concurrent, so while the open of one index is
\* pending and an index is still to be opened, the open of that index can be
\* issued.
C11_OpensConcurrently ==
    (pcMain = "opening" /\ i + 1 < numberStream) => ENABLED MainOpen

C11_SequentialInv ==
    pcMain \in {"opening", "openErr"}
        => /\ ~ENABLED MainOpen
           /\ i < numberStream
           /\ \A k \in Streams : k > i => up[k].pc = "none"

C11_SequentialStep ==
    /\ \A k \in Streams :
          (up[k].pc = "none" /\ up'[k].pc # "none")
              => (pcMain = "opening" /\ pcMain' = "open" /\ k = i + 1)
    /\ i' # i => (pcMain \in {"opening", "openErr"} /\ pcMain' = "open" /\ i' = i + 1)
          \/ (pcMain = "open" /\ pcMain' = "spawn" /\ i' = 0)
          \/ (pcMain = "spawn" /\ pcMain' = "spawn" /\ i' = i + 1)

\* C11 (amended): main opens the streams one after the other. While an open is
\* pending no other open can be issued and no goroutine exists for its index
\* or a later one; a goroutine is spawned for an index only when the open of
\* that index returns a stream, and the index advances only when the pending
\* open has returned. Only the writes are concurrent, with each other and with
\* the opens of later indices.
C11_OpensSequential == []C11_SequentialInv /\ [][C11_SequentialStep]_vars

\* The open of index 1 is pending while the goroutine of index 0 is writing.
C11_Witness ==
    /\ pcMain = "opening"
    /\ i = 1
    /\ up[1].pc = "write"
    /\ up[1].off > 0

\* The next value of the sequence s * 48271 mod 2147483647, by Schrage's
\* decomposition of the modulus (no product of the full width is formed).
RefNext(s) ==
    LET q == Modulus \div Multiplier
        r == Modulus % Multiplier
        t == Multiplier * (s % q) - r * (s \div q)
    IN  IF t > 0 THEN t ELSE t + Modulus

RECURSIVE RefSeq(_)
\* s0 = 1, s(k+1) = s(k) * 48271 mod 2147483647.
RefSeq(k) == IF k = 0 THEN 1 ELSE RefNext(RefSeq(k - 1))

\* C12: payload generator. In every call generatePRData(l), l in 0..MaxLen:
\* the result has l bytes; after i iterations seed is the i-th value of the
\* sequence and the first i bytes are the low-order bytes of its values 1..i;
\* seed stays in 1..2147483646 and the product seed * 48271 stays below 2^47,
\* far from the 64 bits of seed; the returned sequence depends on l only, is
\* empty for l = 0 and starts with 143 for l >= 1.
C12_Generator ==
    gen.pc # "idle"
        => /\ Len(gen.res) = gen.l
           /\ gen.i <= gen.l
           /\ gen.seed = RefSeq(gen.i)
           /\ gen.seed \in 1..(Modulus - 1)
           /\ Product(gen.seed).hi < 2^23
           /\ \A k \in 1..gen.i : gen.res[k] = RefSeq(k) % 256
           /\ gen.pc = "done"
                 => /\ gen.i = gen.l
                    /\ gen.res = [k \in 1..gen.l |-> RefSeq(k) % 256]
                    /\ gen.l = 0 => gen.res = <<>>
                    /\ gen.l >= 1 => gen.res[1] = 143

\* A call with the largest size has returned.
C12_Witness ==
    /\ gen.pc = "done"
    /\ gen.l = MaxLen
    /\ gen.i = MaxLen


\* ------------------------------------------------------------------- C13

\* The figure when the division by ratio is made first and the division by
\* the seconds second.
C13_Expected(tot, avgDur) ==
    LET g == Pow2Gcd(tot * 8, ratio)
        a == [inf |-> FALSE, n |-> (tot * 8) \div g, d |-> ratio \div g]
    IN  Quot(a, Seconds(avgDur))

\* C13: throughput computation. When the report is computed, data was received
\* (total # 0, at least one duration); the average duration is the sum of the
\* recorded durations divided by their count (the quotient of the integer
\* division, in whole nanoseconds); the seconds are the average over 10^9
\* nanoseconds; the figure is total * 8 / seconds / 1048576 (+Inf for an
\* average of zero); and total = 1048576 with an average of exactly one second
\* gives exactly 8.
C13_Throughput ==
    /\ report.averaged =>
          /\ Len(times) >= 1
          /\ total # 0
          /\ report.divisor = Len(times)
          /\ report.avgDur * Len(times) <= SumOver(times, Len(times))
          /\ SumOver(times, Len(times)) < (report.avgDur + 1) * Len(times)
    /\ report.outcome = "speed" =>
          /\ report.averaged
          /\ pcMain = "end"
          /\ LET s == Seconds(report.avgDur)
             IN  /\ s.d >= 1
                 /\ Second % s.d = 0
                 /\ s.n * (Second \div s.d) = report.avgDur
          /\ report.avgDur = 0 => report.mbps.inf
          /\ report.avgDur > 0 =>
                /\ ~report.mbps.inf
                /\ report.mbps.n > 0
                /\ report.mbps.d > 0
          /\ report.mbps = C13_Expected(total, report.avgDur)
          /\ (total = 1048576 /\ report.avgDur = 1000000000) =>
                report.mbps = [inf |-> FALSE, n |-> 8, d |-> 1]
    /\ report.outcome # "speed" => report.mbps = Zero

\* A report of 1,048,576 bytes over two durations of 1 s and 1 s + 1 ns: the
\* average is one second and the figure is 8.
C13_Witness ==
    /\ pcMain = "end"
    /\ report.outcome = "speed"
    /\ total = 1048576
    /\ Len(times) = 2
    /\ times[1] # times[2]
    /\ report.avgDur = 1000000000
    /\ report.mbps.n = 8
    /\ report.mbps.d = 1


\* ------------------------------------------------------------------- C14

\* up[k].armed: SetWriteDeadline was called on the stream of task k and no
\* Write has returned since.
C14_ArmedInv ==
    \A k \in Streams :
       /\ up[k].pc = "write" => (up[k].armed /\ up[k].remaining > 0)
       /\ up[k].pc = "rearm" => ~up[k].armed

C14_ArmStep ==
    \A k \in Streams :
       /\ (up[k].pc = "write" /\ up'[k].pc # "write") =>
             (up[k].armed /\ ~up'[k].armed)
       /\ (~up[k].armed /\ up'[k].armed) =>
             (up[k].pc \in {"arm", "rearm"} /\ up'[k].pc \in {"write", "close"})
       /\ (up[k].pc # "write" /\ up'[k].pc = "write") =>
             (up[k].pc \in {"arm", "rearm"} /\ ~up[k].armed /\ up'[k].armed)

\* C14: write deadline refresh. In every upload task a chunk write starts only
\* with a write deadline armed since the previous write of the same stream
\* returned (or since the task started); the return of a write uses the arming
\* up, and only a SetWriteDeadline step arms again, so no two writes share one
\* arming.
C14_WriteDeadline == []C14_ArmedInv /\ [][C14_ArmStep]_vars

\* A task about to write its second chunk, after a full first chunk and the
\* refresh that followed it.
C14_Witness ==
    \E k \in Streams :
       /\ up[k].pc = "write"
       /\ up[k].off = ChunkSize
       /\ up[k].remaining = ExtraData
       /\ up[k].armed


\* ------------------------------------------------------------------- C15

\* dl[t].armed: the read deadline of the stream of task t was set and no Read
\* has returned since. dl[t].hasDL: the stream has SetReadDeadline.
C15_ArmedInv ==
    \A t \in Streams :
       /\ dl[t].stream = "bidi" /\ dl[t].pc \in BidiPcs => dl[t].hasDL
       /\ dl[t].pc = "bRead" => dl[t].armed
       /\ dl[t].pc = "uRead" => (dl[t].armed <=> dl[t].hasDL)
       /\ dl[t].pc \in UniPcs /\ ~dl[t].hasDL => ~dl[t].armed
       /\ dl[t].pc \notin {"bRead", "uRead"} => ~dl[t].armed

C15_ArmStep ==
    \A t \in Streams :
       /\ (dl[t].pc # "bRead" /\ dl'[t].pc = "bRead") =>
             (dl[t].pc = "bArm" /\ ~dl[t].armed /\ dl'[t].armed)
       /\ (dl[t].pc # "uRead" /\ dl'[t].pc = "uRead") =>
             (dl[t].pc = "uArm" /\ ~dl[t].armed /\ dl'[t].armed = dl[t].hasDL)
       /\ (dl[t].pc \in {"bRead", "uRead"} /\ dl'[t].pc # dl[t].pc) =>
             (~dl'[t].armed /\ dl'[t].got = dl[t].got + dl'[t].n)
       /\ (dl[t].pc \in {"bErr", "uErr"} /\ dl[t].rerr = "timeout") =>
             (dl'[t] = dl[t] \/ dl'[t].pc = IF dl[t].pc = "bErr" THEN "bArm" ELSE "uArm")

\* C15: read deadline refresh. On a duplex stream, and on a receive-only
\* stream with SetReadDeadline, every Read is reached from the deadline call,
\* with the deadline set since the previous Read returned, also after a
\* tolerated timeout; on a receive-only stream without SetReadDeadline the
\* deadline is never set and the Read is reached all the same.
C15_ReadDeadline == []C15_ArmedInv /\ [][C15_ArmStep]_vars

\* A duplex task about to read again after a timeout, its deadline set anew,
\* and a receive-only task without the capability about to read again after
\* it received bytes, no deadline set.
C15_Witness ==
    \E t \in Streams, u \in Streams :
       /\ dl[t].pc = "bRead" /\ dl[t].tos >= 1 /\ dl[t].armed
       /\ dl[u].pc = "uRead" /\ ~dl[u].hasDL /\ dl[u].got > 0 /\ ~dl[u].armed


\* ------------------------------------------------------------------- C16

\* The positions of an upload task after the initialisation of off and remaining.
C16_Pcs == {"write", "rearm", "close", "exit"}

C16_ChunkInv ==
    \A k \in Streams :
       /\ up[k].pc \in C16_Pcs =>
             /\ up[k].off + up[k].remaining = dataSize
             /\ 0 <= up[k].off
             /\ up[k].off <= dataSize
             /\ up[k].lo + up[k].chunk <= dataSize
             /\ up[k].chunk <= 65536
             \* the bytes accepted so far are msg[0 : off]: the last Write
             \* started where they ended before it, and off moved by its count
             /\ ~up[k].werr => up[k].off = up[k].lo + up[k].n
             /\ up[k].werr => up[k].off = up[k].lo
             /\ up[k].n <= up[k].chunk
       /\ up[k].pc = "write" => (up[k].remaining > 0 /\ ~up[k].werr)
       /\ up[k].pc \in {"close", "exit"} /\ ~up[k].werr =>
             (up[k].off = dataSize /\ up[k].remaining = 0)

C16_WriteStep ==
    \A k \in Streams :
       /\ (up[k].pc = "write" /\ up'[k].pc # "write") =>
             /\ up'[k].lo = up[k].off
             /\ up'[k].chunk = Min(65536, up[k].remaining)
             /\ up'[k].chunk >= 1
             /\ \/ /\ up'[k].pc = "rearm"
                   /\ up'[k].n >= 1
                   /\ up'[k].off = up[k].off + up'[k].n
                   /\ up'[k].remaining = up[k].remaining - up'[k].n
                \/ /\ up'[k].pc = "close"
                   /\ up'[k].werr
                   /\ up'[k].off = up[k].off
       /\ (up[k].pc \in C16_Pcs /\ up[k].pc # "write" /\ up'[k].pc \in C16_Pcs) =>
             (up'[k].off = up[k].off /\ up'[k].remaining = up[k].remaining)

\* C16: chunked upload. In every upload task off + remaining = len(msg) with
\* 0 <= off <= len(msg) before and after every Write; a Write is given the
\* slice that starts at off and has min(65536, remaining) bytes; a Write that
\* returns n without error, n < chunk included, moves off by n, so the next
\* slice starts at the first byte not yet accepted; a task that ends without
\* a write error ends with off = len(msg).
C16_ChunkedUpload == []C16_ChunkInv /\ [][C16_WriteStep]_vars

\* A task that ends without a write error after a partial first Write: its
\* last Write started at the byte the partial one stopped at.
C16_Witness ==
    \E k \in Streams :
       /\ up[k].pc = "exit"
       /\ ~up[k].werr
       /\ up[k].off = dataSize
       /\ dataSize > ChunkSize
       /\ up[k].lo = ChunkSize - 1
       /\ up[k].chunk = ExtraData + 1
       /\ up[k].n = up[k].chunk


\* ------------------------------------------------------------------- C17

\* Between mu.Lock() and mu.Unlock().
HoldPcs == {"uLoad", "uStore", "uUnlock", "uAppend", "uTimesUnlock",
            "bLoad", "bStore", "bUnlock", "bAppend", "bTimesUnlock"}

\* Inside, or about to make, a call on the session or on a stream.
IoPcs == {"acceptBidi", "acceptUni", "uArm", "uRead", "bArm", "bRead", "bClose"}

Holders == {t \in Streams : dl[t].pc \in HoldPcs}

C17_LockInv ==
    /\ Cardinality(Holders) <= 1
    /\ \A t \in Streams : (mu = t) <=> (t \in Holders)
    /\ mu = 0 <=> Holders = {}
    /\ \A t \in Streams : dl[t].pc \in IoPcs => mu # t
    /\ pcMain # "spawn" => mu = 0

C17_LockStep ==
    /\ (pcMain = "spawn" /\ total' # total) =>
          \E t \in Streams :
             /\ mu = t
             /\ mu' = t
             /\ dl[t].pc \in {"uStore", "bStore"}
             /\ dl'[t].pc \in {"uUnlock", "bUnlock"}
             /\ \A u \in Streams \ {t} : dl'[u] = dl[u]
    /\ times' # times =>
          \/ pcMain = "open" /\ pcMain' = "spawn" /\ times' = <<>>
          \/ \E t \in Streams :
                /\ mu = t
                /\ mu' = t
                /\ dl[t].pc \in {"uAppend", "bAppend"}
                /\ dl'[t].pc \in {"uTimesUnlock", "bTimesUnlock"}
                /\ \A u \in Streams \ {t} : dl'[u] = dl[u]
    /\ \A t \in Streams :
          (dl[t].pc \in IoPcs /\ dl'[t].pc # dl[t].pc) => (mu # t /\ mu' # t)
    /\ \A t \in Streams :
          (mu # t /\ mu' = t) => (mu = 0 /\ dl[t].pc \in {"uLock", "bLock", "uTimesLock", "bTimesLock"})

\* C17: lock discipline. At most one download task is between mu.Lock() and
\* mu.Unlock(), and it is the holder of mu; total is modified and times is
\* appended to by a download task only in a step of the holder; no task is at
\* an accept, a deadline call, a Read or a Close while it holds mu.
C17_LockDiscipline == []C17_LockInv /\ [][C17_LockStep]_vars

\* One task holds mu for its append while the other, with bytes to add, waits
\* for mu.
C17_Witness ==
    \E t \in Streams, u \in Streams :
       /\ mu = t
       /\ dl[t].pc = "bAppend"
       /\ dl[u].pc = "uLock"
       /\ dl[u].n > 0


\* ------------------------------------------------------------------- C18

\* closed counts the Close calls on the stream of a task.
C18_ReleaseInv ==
    /\ \A k \in Streams :
          /\ up[k].pc \in {"arm", "write", "rearm", "close"} => up[k].closed = 0
          /\ up[k].pc = "exit" => up[k].closed = 1
          /\ up[k].pc = "none" => up[k].closed = 0
    /\ pcMain \notin UploadPcs => \A k \in Streams : up[k].pc = "none"
    /\ \A t \in Streams :
          /\ dl[t].stream = "none" => dl[t].closed = 0
          /\ dl[t].stream = "uni" => dl[t].closed = 0
          /\ dl[t].stream = "bidi" =>
                /\ dl[t].pc \in BidiPcs \cup {"exit", "Done"}
                /\ dl[t].pc \in BidiPcs => dl[t].closed = 0
                /\ dl[t].pc \in {"exit", "Done"} => dl[t].closed = 1
          /\ dl[t].pc = "bClose" => dl[t].rerr \in {"EOF", "other"}
    /\ pcMain \in ReportPcs =>
          \A t \in Streams :
             /\ dl[t].stream = "bidi" => dl[t].closed = 1
             /\ dl[t].stream = "uni" => dl[t].closed = 0

C18_ReleaseStep ==
    /\ \A k \in Streams :
          /\ (up[k].pc # "none" /\ up'[k].pc = "none") =>
                (up[k].pc = "exit" /\ up[k].closed = 1 /\ w' = w - 1)
          /\ (up[k].pc # "exit" /\ up'[k].pc = "exit") =>
                /\ up[k].pc = "close"
                /\ up'[k].closed = up[k].closed + 1
                /\ up[k].werr \/ up[k].remaining = 0
                /\ \A j \in Streams \ {k} : up'[j] = up[j]
          /\ (up'[k].closed > up[k].closed) => up[k].pc = "close"
    /\ \A t \in Streams :
          /\ dl'[t].closed # dl[t].closed =>
                /\ dl[t].pc = "bClose"
                /\ dl'[t].pc = "exit"
                /\ dl[t].stream = "bidi"
                /\ dl'[t].closed = 1
                /\ \A u \in Streams \ {t} : dl'[u] = dl[u]
          /\ (dl[t].pc # "Done" /\ dl'[t].pc = "Done") =>
                (w' = w - 1 /\ (dl[t].stream = "bidi" => dl[t].closed = 1))

\* C18: stream release. The stream of an upload task, and the stream a
\* download task accepted as duplex, is closed exactly once, by a step of that
\* task, after its loop ended (payload written, write error, io.EOF, other
\* read error) and before the task decrements the WaitGroup, hence before the
\* barrier of its phase is passed; a receive-only stream is never closed.
C18_StreamRelease == []C18_ReleaseInv /\ [][C18_ReleaseStep]_vars

\* A duplex download stream closed after a read error that is no timeout, by
\* a task that has not yet decremented the WaitGroup, next to a finished task
\* whose receive-only stream was left open.
C18_Witness ==
    \E t \in Streams, u \in Streams :
       /\ dl[t].pc = "exit"
       /\ dl[t].stream = "bidi"
       /\ dl[t].rerr = "other"
       /\ dl[t].closed = 1
       /\ dl[u].pc = "Done"
       /\ dl[u].stream = "uni"
       /\ dl[u].closed = 0
       /\ w = 1


\* ------------------------------------------------------------------- C19

\* C19: at the report (after the download barrier) total # 0 implies that
\* times is not empty: every task that added bytes has appended its duration.
\* Hence the test len(times) == 0 || total == 0 is true exactly when total is
\* 0, and the outcome is "no data" exactly when total is 0. The converse of
\* the implication fails: the witness has a duration and total = 0.
C19_TotalDecides ==
    pcMain \in ReportPcs =>
       /\ total # 0 => Len(times) >= 1
       /\ \A t \in Streams : dl[t].got > 0 => (dl[t].pc = "Done" /\ dl[t].durs = 1)
       /\ (Len(times) = 0 \/ total = 0) <=> total = 0
       /\ report.outcome = "nodata" => total = 0
       /\ report.outcome = "speed" => total # 0
       /\ pcMain \in {"average", "throughput"} => total # 0
       /\ pcMain = "end" => report.outcome = IF total = 0 THEN "nodata" ELSE "speed"

\* The report of a run in which both streams ended without a byte: two
\* durations, total 0, "no data".
C19_Witness ==
    /\ pcMain = "end"
    /\ total = 0
    /\ Len(times) = 2
    /\ report.outcome = "nodata"
    /\ \A t \in Streams : dl[t].pc = "Done" /\ dl[t].got = 0 /\ dl[t].durs = 1


\* ------------------------------------------------------------------- C20

\* Task t is not in a read loop, or the last Read of its stream was answered
\* with io.EOF or with an error that is no timeout.
C20_Answered(t) == dl[t].pc \notin LoopPcs \/ dl[t].rerr \in {"EOF", "other"}

\* The download phase is over: the report is made, every download task is
\* Done or Failed and the WaitGroup counter is zero.
C20_Reported ==
    /\ pcMain = "end"
    /\ report.outcome \in {"nodata", "speed"}
    /\ w = 0
    /\ \A t \in Streams :
          IF t <= numberStream THEN dl[t].pc \in {"Done", "Failed"}
          ELSE dl[t].pc = "none"

\* C20: conditional termination of the download phase. With main and every
\* download task scheduled (weak fairness) and every accept returning, if
\* every accepted stream eventually answers a Read with io.EOF or with an
\* error that is no timeout (no task reads for ever without such an answer),
\* then a run that starts the download phase reaches the end of the report,
\* with every download task Done or Failed and the barrier passed.
C20_DownloadTerminates ==
    (\A t \in Streams : []<>C20_Answered(t)) => ((pcMain = "spawn") ~> C20_Reported)

\* The end of a run in which the first task failed both accepts and the
\* second read the whole payload from a receive-only stream after a timeout
\* and a read that returned nothing.
C20_Witness ==
    /\ pcMain = "end"
    /\ report.outcome = "speed"
    /\ numberStream = 2
    /\ dl[1].pc = "Failed"
    /\ dl[2].pc = "Done"
    /\ dl[2].stream = "uni"
    /\ dl[2].got = dataSize
    /\ total = dataSize
    /\ faults

====
